---- MODULE Spec2Model ----
(***************************************************************************)
(* Model of the YAML configuration editor (src/main.py): the node tree     *)
(* built by YAMLNode, the change ledger kept by YAMLEditor (changes /      *)
(* original_values / export.env) and the key handler handle_navigation.    *)
(*                                                                         *)
(* Strings are sequences of one-character strings, so that formatting and  *)
(* parsing of export.env are computed character by character.  A Python    *)
(* dict is a sequence of [k, v] entries with distinct keys, in insertion   *)
(* order.  A tree node is named by the sequence of child indexes that lead *)
(* to it from the root (<<>> is the root).                                 *)
(***************************************************************************)
EXTENDS Integers, Sequences, FiniteSets, TLC

\* ------------------------------------------------------------------------
\* Bounds of the model
\* ------------------------------------------------------------------------

\* successful edits over a whole run
MaxEdits == 2

\* sessions (runs of main) over a whole run
MaxSessions == 2

\* ------------------------------------------------------------------------
\* String helpers (Python str methods)
\* ------------------------------------------------------------------------

\* Python None where a string is expected (no string has this element)
None == <<"<None>">>

\* characters removed by str.strip() without argument
Whitespace == {" ", "\t", "\n", "\r"}

\* characters removed by value.strip('"\'')
Quotes == {"\"", "'"}

\* s[i:] with i counted from 0
DropFirst(s, i) == SubSeq(s, i + 1, Len(s))

\* s.startswith(prefix)
StartsWith(s, prefix) ==
    /\ Len(prefix) <= Len(s)
    /\ SubSeq(s, 1, Len(prefix)) = prefix

\* c in s
Contains(s, c) == \E i \in 1..Len(s) : s[i] = c

\* s.index(c), counted from 1; only used when c in s
IndexOf(s, c) == CHOOSE i \in 1..Len(s) : s[i] = c /\ \A j \in 1..(i - 1) : s[j] # c

RECURSIVE LStrip(_, _)
\* s.lstrip(chars)
LStrip(s, chars) ==
    IF s # <<>> /\ Head(s) \in chars THEN LStrip(Tail(s), chars) ELSE s

RECURSIVE RStrip(_, _)
\* s.rstrip(chars)
RStrip(s, chars) ==
    IF s # <<>> /\ s[Len(s)] \in chars THEN RStrip(SubSeq(s, 1, Len(s) - 1), chars) ELSE s

\* s.strip(chars)
Strip(s, chars) == RStrip(LStrip(s, chars), chars)

\* s.split(sep, 1) for s containing sep: the parts before and after the first sep
SplitFirst(s, sep) ==
    <<SubSeq(s, 1, IndexOf(s, sep) - 1), DropFirst(s, IndexOf(s, sep))>>

RECURSIVE Join(_, _)
\* sep.join(parts)
Join(parts, sep) ==
    IF parts = <<>> THEN <<>>
    ELSE IF Len(parts) = 1 THEN parts[1]
    ELSE parts[1] \o sep \o Join(Tail(parts), sep)

RECURSIVE SplitLines(_)
\* the lines a text file yields when iterated ("for line in f"), each with
\* its newline when it has one
SplitLines(content) ==
    IF content = <<>> THEN <<>>
    ELSE IF Contains(content, "\n")
         THEN <<SubSeq(content, 1, IndexOf(content, "\n"))>>
                  \o SplitLines(DropFirst(content, IndexOf(content, "\n")))
         ELSE <<content>>

Digit(d) == CASE d = 0 -> "0" [] d = 1 -> "1" [] d = 2 -> "2" [] d = 3 -> "3"
              [] d = 4 -> "4" [] d = 5 -> "5" [] d = 6 -> "6" [] d = 7 -> "7"
              [] d = 8 -> "8" [] d = 9 -> "9"

RECURSIVE IntStr(_)
\* str(n) for an int n >= 0
IntStr(n) == IF n < 10 THEN <<Digit(n)>> ELSE IntStr(n \div 10) \o <<Digit(n % 10)>>

\* ------------------------------------------------------------------------
\* Parsed documents (what yaml.safe_load returns)
\* ------------------------------------------------------------------------

\* a str scalar
StrV(s) == [t |-> "str", s |-> s, n |-> 0, items |-> <<>>]

\* an int scalar
IntV(n) == [t |-> "int", s |-> <<>>, n |-> n, items |-> <<>>]

\* None (a null scalar)
NullV == [t |-> "null", s |-> <<>>, n |-> 0, items |-> <<>>]

\* a list, held as the text str() gives for it: the program only tests its
\* type and prints it
ListV(text) == [t |-> "list", s |-> text, n |-> 0, items |-> <<>>]

\* a dict, as the sequence of its items in document order
MapV(items) == [t |-> "dict", s |-> <<>>, n |-> 0, items |-> items]

\* one item of a dict
Item(k, v) == [k |-> k, v |-> v]

\* isinstance(value, dict)
IsDict(value) == value.t = "dict"

\* isinstance(value, str)
IsStr(value) == value.t = "str"

\* str(value) for a scalar value
Str(value) ==
    CASE value.t = "str"  -> value.s
      [] value.t = "int"  -> IntStr(value.n)
      [] value.t = "null" -> <<"N","o","n","e">>
      [] value.t = "list" -> value.s

\* {db: {host: "${DB_HOST:localhost}", port: 5432}}
DocDb ==
    MapV(<< Item(<<"d","b">>, MapV(<<
        Item(<<"h","o","s","t">>,
             StrV(<<"$","{","D","B","_","H","O","S","T",":",
                    "l","o","c","a","l","h","o","s","t","}">>)),
        Item(<<"p","o","r","t">>, IntV(5432)) >>)) >>)

\* {a_b: 1, a: {b: 2}, e: {}}
DocPaths ==
    MapV(<< Item(<<"a","_","b">>, IntV(1)),
            Item(<<"a">>, MapV(<< Item(<<"b">>, IntV(2)) >>)),
            Item(<<"e">>, MapV(<<>>)) >>)

\* {x: "${E:2}", y: "${E}"}
DocEnv ==
    MapV(<< Item(<<"x">>, StrV(<<"$","{","E",":","2","}">>)),
            Item(<<"y">>, StrV(<<"$","{","E","}">>)) >>)

\* the documents a session is started on
Docs == {DocDb, DocPaths, DocEnv}

\* {n: null, l: [1, 2], m: {}, s: "plain", t: "x${A}", u: "${A"}
DocKinds ==
    MapV(<< Item(<<"n">>, NullV),
            Item(<<"l">>, ListV(<<"[","1",","," ","2","]">>)),
            Item(<<"m">>, MapV(<<>>)),
            Item(<<"s">>, StrV(<<"p","l","a","i","n">>)),
            Item(<<"t">>, StrV(<<"x","$","{","A","}">>)),
            Item(<<"u">>, StrV(<<"$","{","A">>)) >>)

\* {p: {c: "${A:b:c}", d: "${A:}", e: "${DB_HOST}"}, q: {r: {}}, w: {k: "${E:2}"}}
DocHolders ==
    MapV(<< Item(<<"p">>, MapV(<<
                Item(<<"c">>, StrV(<<"$","{","A",":","b",":","c","}">>)),
                Item(<<"d">>, StrV(<<"$","{","A",":","}">>)),
                Item(<<"e">>, StrV(<<"$","{","D","B","_","H","O","S","T","}">>)) >>)),
            Item(<<"q">>, MapV(<< Item(<<"r">>, MapV(<<>>)) >>)),
            Item(<<"w">>, MapV(<< Item(<<"k">>, StrV(<<"$","{","E",":","2","}">>)) >>)) >>)

\* an empty document: yaml.safe_load returns None
DocNull == NullV

\* the documents a session without edits is started on
BrowseDocs == Docs \cup {DocKinds, DocHolders, DocNull}

\* ------------------------------------------------------------------------
\* class YAMLNode
\* ------------------------------------------------------------------------

\* the parent of the root
NoNode == <<0>>

\* s without its last element
Front(s) == SubSeq(s, 1, Len(s) - 1)

\* value[2:value.index("}")] of a placeholder string
EnvPart(s) == SubSeq(s, 3, IndexOf(s, "}") - 1)

\* the test of line 18
IsPlaceholder(value) ==
    IsStr(value) /\ StartsWith(value.s, <<"$", "{">>) /\ Contains(value.s, "}")

\* YAMLNode.__init__ with env_part sliced from index 1 instead of 2
YAMLNode_slice_from_1(path, key, value) ==
    [ key      |-> key,
      parent   |-> IF path = <<>> THEN NoNode ELSE Front(path),
      is_leaf  |-> ~IsDict(value),
      env_var  |-> IF IsPlaceholder(value)
                   THEN IF Contains(EnvPart(value.s), ":")
                        THEN <<"{">> \o SplitFirst(EnvPart(value.s), ":")[1]
                        ELSE <<"{">> \o EnvPart(value.s)
                   ELSE None,
      value    |-> IF IsPlaceholder(value)
                   THEN IF Contains(EnvPart(value.s), ":")
                        THEN StrV(SplitFirst(EnvPart(value.s), ":")[2])
                        ELSE StrV(<<>>)
                   ELSE value,
      children |-> IF IsDict(value)
                   THEN [i \in 1..Len(value.items) |-> path \o <<i>>]
                   ELSE <<>> ]

\* YAMLNode.__init__ that takes a list for a container as well
YAMLNode_list_container(path, key, value) ==
    [ key      |-> key,
      parent   |-> IF path = <<>> THEN NoNode ELSE Front(path),
      is_leaf  |-> ~(IsDict(value) \/ value.t = "list"),
      env_var  |-> IF IsPlaceholder(value)
                   THEN IF Contains(EnvPart(value.s), ":")
                        THEN SplitFirst(EnvPart(value.s), ":")[1]
                        ELSE EnvPart(value.s)
                   ELSE None,
      value    |-> IF IsPlaceholder(value)
                   THEN IF Contains(EnvPart(value.s), ":")
                        THEN StrV(SplitFirst(EnvPart(value.s), ":")[2])
                        ELSE StrV(<<>>)
                   ELSE value,
      children |-> IF IsDict(value)
                   THEN [i \in 1..Len(value.items) |-> path \o <<i>>]
                   ELSE <<>> ]

\* the fields YAMLNode.__init__ gives the node at path, built from key and value
YAMLNode(path, key, value) ==
    [ key      |-> key,
      parent   |-> IF path = <<>> THEN NoNode ELSE Front(path),
      is_leaf  |-> ~IsDict(value),
      env_var  |-> IF IsPlaceholder(value)
                   THEN IF Contains(EnvPart(value.s), ":")
                        THEN SplitFirst(EnvPart(value.s), ":")[1]
                        ELSE EnvPart(value.s)
                   ELSE None,
      value    |-> IF IsPlaceholder(value)
                   THEN IF Contains(EnvPart(value.s), ":")
                        THEN StrV(SplitFirst(EnvPart(value.s), ":")[2])
                        ELSE StrV(<<>>)
                   ELSE value,
      children |-> IF IsDict(value)
                   THEN [i \in 1..Len(value.items) |-> path \o <<i>>]
                   ELSE <<>> ]

RECURSIVE Paths(_)
\* the nodes that YAMLNode(key, value) creates, itself included
Paths(value) ==
    IF IsDict(value)
    THEN {<<>>} \cup UNION { { <<i>> \o q : q \in Paths(value.items[i].v) }
                              : i \in 1..Len(value.items) }
    ELSE {<<>>}

RECURSIVE ValueAt(_, _)
\* the value handed to the constructor of the node at path
ValueAt(value, path) ==
    IF path = <<>> THEN value ELSE ValueAt(value.items[Head(path)].v, Tail(path))

\* the key handed to the constructor of the node at path
KeyAt(data, path) ==
    IF path = <<>> THEN <<"r","o","o","t">>
    ELSE ValueAt(data, Front(path)).items[path[Len(path)]].k

\* YAMLNode('root', data): every node of the tree, by path
BuildTree(data) ==
    [p \in Paths(data) |-> YAMLNode(p, KeyAt(data, p), ValueAt(data, p))]

\* ------------------------------------------------------------------------
\* Python dict, in insertion order
\* ------------------------------------------------------------------------

\* the keys of d
Keys(d) == { d[i].k : i \in 1..Len(d) }

\* k in d
Has(d, k) == \E i \in 1..Len(d) : d[i].k = k

\* d[k], for k in d
Get(d, k) == d[CHOOSE i \in 1..Len(d) : d[i].k = k].v

\* d after d[k] = v: an existing key keeps its place, a new key goes last
Put(d, k, v) ==
    IF Has(d, k)
    THEN [i \in 1..Len(d) |-> IF d[i].k = k THEN [k |-> k, v |-> v] ELSE d[i]]
    ELSE Append(d, [k |-> k, v |-> v])

\* d1 == d2: the same keys with the same values, in any order
DictEq(d1, d2) ==
    { <<d1[i].k, d1[i].v>> : i \in 1..Len(d1) } = { <<d2[i].k, d2[i].v>> : i \in 1..Len(d2) }

\* ------------------------------------------------------------------------
\* export.env
\* ------------------------------------------------------------------------

\* the content of export.env when os.path.exists('export.env') is false
Absent == <<"<absent>">>

\* 'export '
Export == <<"e","x","p","o","r","t"," ">>

\* an empty file
StoreEmpty == <<>>

\* export A=1 / export B=2
StoreAB == Export \o <<"A","=","1","\n">> \o Export \o <<"B","=","2","\n">>

\* indented, quoted, malformed and repeated lines
StoreMixed ==
    <<" "," ">> \o Export \o <<"D","B","_","H","O","S","T","=","1","\n">>
    \o Export \o <<"a","_","b","=","\"","2","\"","\n">>
    \o <<"j","u","n","k","\n">>
    \o Export \o <<"E","=","'","1","'","\n">>
    \o Export \o <<"N","O","E","Q","\n">>
    \o Export \o <<"E","=","2","\n">>

\* the contents of export.env a first session is started on
Stores == {Absent, StoreEmpty, StoreAB, StoreMixed}

\* the effect of one line of export.env on the dict (lines 121-128)
LoadLine(d, rawline) ==
    LET line == Strip(rawline, Whitespace) IN
    IF StartsWith(line, Export)
    THEN LET env_setting == DropFirst(line, 7) IN
         IF Contains(env_setting, "=")
         THEN Put(d, SplitFirst(env_setting, "=")[1],
                     Strip(SplitFirst(env_setting, "=")[2], Quotes))
         ELSE d
    ELSE d

RECURSIVE LoadLines(_, _)
\* the loop of line 120
LoadLines(d, lines) ==
    IF lines = <<>> THEN d ELSE LoadLines(LoadLine(d, Head(lines)), Tail(lines))

\* load_env_file that leaves out line 128
load_env_file_no_original(f) ==
    [ changes         |-> IF f = Absent THEN <<>> ELSE LoadLines(<<>>, SplitLines(f)),
      original_values |-> <<>> ]

\* load_env_file: changes and original_values afterwards (both start empty and
\* take the same assignments, lines 127-128)
load_env_file(f) ==
    [ changes         |-> IF f = Absent THEN <<>> ELSE LoadLines(<<>>, SplitLines(f)),
      original_values |-> IF f = Absent THEN <<>> ELSE LoadLines(<<>>, SplitLines(f)) ]

\* the line written for one entry (line 161)
ExportLine(env_name, value) == Export \o env_name \o <<"=">> \o value \o <<"\n">>

RECURSIVE WriteLines(_)
\* the loop of line 160
WriteLines(d) ==
    IF d = <<>> THEN <<>> ELSE ExportLine(d[1].k, d[1].v) \o WriteLines(Tail(d))

\* save_changes with the file opened with 'a' instead of 'w'
save_changes_append(f, d) == (IF f = Absent THEN <<>> ELSE f) \o WriteLines(d)

\* save_changes: the content of export.env afterwards (opened with 'w')
save_changes(f, d) == WriteLines(d)

\* has_unsaved_changes
has_unsaved_changes(d, original) == ~DictEq(d, original)

\* ------------------------------------------------------------------------
\* YAMLEditor: tree helpers
\* ------------------------------------------------------------------------

\* truth value of an optional string (None and '' are false)
Truthy(s) == s # None /\ s # <<>>

RECURSIVE PathKeys(_, _)
\* the keys from below the root down to node (the reversed list of line 115)
PathKeys(tree, node) ==
    IF tree[node].parent = NoNode THEN <<>>
    ELSE Append(PathKeys(tree, tree[node].parent), tree[node].key)

\* get_node_path
get_node_path(tree, node) == Join(PathKeys(tree, node), <<"_">>)

\* _update_node_values(root): every node takes its value from the dict
update_node_values(tree, d) ==
    [node \in DOMAIN tree |->
        IF Truthy(tree[node].env_var) /\ Has(d, tree[node].env_var)
        THEN [tree[node] EXCEPT !.value = StrV(Get(d, tree[node].env_var))]
        ELSE IF ~Truthy(tree[node].env_var) /\ tree[node].is_leaf
                 /\ Has(d, get_node_path(tree, node))
             THEN [tree[node] EXCEPT !.value = StrV(Get(d, get_node_path(tree, node)))]
             ELSE tree[node]]

\* parse_yaml: the tree of the document, with the values of the dict
parse_yaml(data, d) == update_node_values(BuildTree(data), d)

RECURSIVE Filter(_, _, _)
\* the nodes of the list that are leaves (leaf = TRUE) or are not (leaf = FALSE)
Filter(tree, nodes, leaf) ==
    IF nodes = <<>> THEN <<>>
    ELSE IF tree[Head(nodes)].is_leaf = leaf
         THEN <<Head(nodes)>> \o Filter(tree, Tail(nodes), leaf)
         ELSE Filter(tree, Tail(nodes), leaf)

\* get_navigable_nodes
get_navigable_nodes(tree, node) == Filter(tree, tree[node].children, FALSE)

\* get_editable_nodes without the is_leaf filter
get_editable_nodes_all(tree, node) == tree[node].children

\* get_editable_nodes
get_editable_nodes(tree, node) == Filter(tree, tree[node].children, TRUE)

\* ------------------------------------------------------------------------
\* State
\* ------------------------------------------------------------------------

VARIABLES
    yaml_file,          \* the parsed content of the document named on the command line
    file,               \* the content of export.env
    height,             \* stdscr.getmaxyx()[0]
    changes,            \* self.changes
    original_values,    \* self.original_values
    root,               \* the node tree: path -> node
    current_node,       \* self.current_node
    nav_position,       \* self.nav_position
    scroll_offset,      \* self.scroll_offset
    edit_position,      \* self.edit_position
    edit_scroll_offset, \* self.edit_scroll_offset
    edit_mode,          \* self.edit_mode
    pc,                 \* where the session is: "run", "confirm_exit" or "done"
    key,                \* the key last returned by getch
    new_value,          \* the text last returned by getstr, None when the last key opened no edit
    edits,              \* the successful edits of this session, in order
    prev,               \* the session before this one, as it ended
    session,            \* sessions started so far
    nedits              \* successful edits so far

editor == <<changes, original_values, root, current_node, nav_position,
            scroll_offset, edit_position, edit_scroll_offset, edit_mode>>

vars == <<yaml_file, file, height, changes, original_values, root, current_node,
          nav_position, scroll_offset, edit_position, edit_scroll_offset,
          edit_mode, pc, key, new_value, edits, prev, session, nedits>>

\* the terminal height of the session: a window of height - 4 = 1 row, so that
\* a pane of two items scrolls
Heights == {5}

\* the texts typed into the edit window
EditInputs == {<<>>, <<"2">>, <<"'","1","'">>}

\* the keys pressed that the handlers do not know
OtherKeys == {"KEY_LEFT"}

\* the terminal heights of a session without edits: windows of 0, 1 and 2 rows
BrowseHeights == {4, 5, 6}

\* YAMLEditor.__init__ on document data with export.env content f: the fields
\* of the new editor
YAMLEditor(data, f) ==
    [ changes            |-> load_env_file(f).changes,
      original_values    |-> load_env_file(f).original_values,
      root               |-> parse_yaml(data, load_env_file(f).changes),
      current_node       |-> <<>>,
      nav_position       |-> 0,
      scroll_offset      |-> 0,
      edit_position      |-> 0,
      edit_scroll_offset |-> 0,
      edit_mode          |-> FALSE ]

Init ==
    /\ yaml_file \in Docs
    /\ file \in Stores
    /\ height \in Heights
    /\ changes = YAMLEditor(yaml_file, file).changes
    /\ original_values = YAMLEditor(yaml_file, file).original_values
    /\ root = YAMLEditor(yaml_file, file).root
    /\ current_node = YAMLEditor(yaml_file, file).current_node
    /\ nav_position = YAMLEditor(yaml_file, file).nav_position
    /\ scroll_offset = YAMLEditor(yaml_file, file).scroll_offset
    /\ edit_position = YAMLEditor(yaml_file, file).edit_position
    /\ edit_scroll_offset = YAMLEditor(yaml_file, file).edit_scroll_offset
    /\ edit_mode = YAMLEditor(yaml_file, file).edit_mode
    /\ pc = "run"
    /\ key = "start"
    /\ new_value = None
    /\ edits = <<>>
    /\ prev = [key |-> "none", edits |-> <<>>, root |-> root, changes |-> <<>>]
    /\ session = 1
    /\ nedits = 0

\* ------------------------------------------------------------------------
\* handle_navigation, one action per key
\* ------------------------------------------------------------------------

\* what no key handler changes
Fixed == UNCHANGED <<yaml_file, height, original_values, prev, session>>

\* KEY_UP
MoveUp ==
    /\ pc = "run"
    /\ key' = "KEY_UP"
    /\ new_value' = None
    /\ IF edit_mode
       THEN /\ IF edit_position > 0
               THEN /\ edit_position' = edit_position - 1
                    /\ edit_scroll_offset' =
                          IF edit_position - 1 < edit_scroll_offset
                          THEN edit_position - 1 ELSE edit_scroll_offset
               ELSE UNCHANGED <<edit_position, edit_scroll_offset>>
            /\ UNCHANGED <<nav_position, scroll_offset>>
       ELSE /\ IF nav_position > 0
               THEN /\ nav_position' = nav_position - 1
                    /\ scroll_offset' =
                          IF nav_position - 1 < scroll_offset
                          THEN nav_position - 1 ELSE scroll_offset
               ELSE UNCHANGED <<nav_position, scroll_offset>>
            /\ UNCHANGED <<edit_position, edit_scroll_offset>>
    /\ UNCHANGED <<file, changes, root, current_node, edit_mode, pc, edits, nedits>>
    /\ Fixed

\* KEY_DOWN that wraps to the first item after the last
MoveDown_wraps ==
    /\ pc = "run"
    /\ key' = "KEY_DOWN"
    /\ new_value' = None
    /\ LET items == IF edit_mode THEN get_editable_nodes(root, current_node)
                                ELSE get_navigable_nodes(root, current_node)
           max_pos == Len(items) - 1
       IN IF edit_mode
          THEN /\ IF edit_position < max_pos
                  THEN /\ edit_position' = edit_position + 1
                       /\ edit_scroll_offset' =
                             IF edit_position + 1 >= edit_scroll_offset + (height - 4)
                             THEN edit_position + 1 - (height - 4) + 1
                             ELSE edit_scroll_offset
                  ELSE /\ edit_position' = 0
                       /\ edit_scroll_offset' = 0
               /\ UNCHANGED <<nav_position, scroll_offset>>
          ELSE /\ IF nav_position < max_pos
                  THEN /\ nav_position' = nav_position + 1
                       /\ scroll_offset' =
                             IF nav_position + 1 >= scroll_offset + (height - 4)
                             THEN nav_position + 1 - (height - 4) + 1
                             ELSE scroll_offset
                  ELSE /\ nav_position' = 0
                       /\ scroll_offset' = 0
               /\ UNCHANGED <<edit_position, edit_scroll_offset>>
    /\ UNCHANGED <<file, changes, root, current_node, edit_mode, pc, edits, nedits>>
    /\ Fixed

\* KEY_DOWN that scrolls one step late (> for >= in lines 310 and 316)
MoveDown_late_scroll ==
    /\ pc = "run"
    /\ key' = "KEY_DOWN"
    /\ new_value' = None
    /\ LET items == IF edit_mode THEN get_editable_nodes(root, current_node)
                                ELSE get_navigable_nodes(root, current_node)
           max_pos == Len(items) - 1
       IN IF edit_mode
          THEN /\ IF edit_position < max_pos
                  THEN /\ edit_position' = edit_position + 1
                       /\ edit_scroll_offset' =
                             IF edit_position + 1 > edit_scroll_offset + (height - 4)
                             THEN edit_position + 1 - (height - 4) + 1
                             ELSE edit_scroll_offset
                  ELSE UNCHANGED <<edit_position, edit_scroll_offset>>
               /\ UNCHANGED <<nav_position, scroll_offset>>
          ELSE /\ IF nav_position < max_pos
                  THEN /\ nav_position' = nav_position + 1
                       /\ scroll_offset' =
                             IF nav_position + 1 > scroll_offset + (height - 4)
                             THEN nav_position + 1 - (height - 4) + 1
                             ELSE scroll_offset
                  ELSE UNCHANGED <<nav_position, scroll_offset>>
               /\ UNCHANGED <<edit_position, edit_scroll_offset>>
    /\ UNCHANGED <<file, changes, root, current_node, edit_mode, pc, edits, nedits>>
    /\ Fixed

\* KEY_DOWN
MoveDown ==
    /\ pc = "run"
    /\ key' = "KEY_DOWN"
    /\ new_value' = None
    /\ LET items == IF edit_mode THEN get_editable_nodes(root, current_node)
                                ELSE get_navigable_nodes(root, current_node)
           max_pos == Len(items) - 1
       IN IF edit_mode
          THEN /\ IF edit_position < max_pos
                  THEN /\ edit_position' = edit_position + 1
                       /\ edit_scroll_offset' =
                             IF edit_position + 1 >= edit_scroll_offset + (height - 4)
                             THEN edit_position + 1 - (height - 4) + 1
                             ELSE edit_scroll_offset
                  ELSE UNCHANGED <<edit_position, edit_scroll_offset>>
               /\ UNCHANGED <<nav_position, scroll_offset>>
          ELSE /\ IF nav_position < max_pos
                  THEN /\ nav_position' = nav_position + 1
                       /\ scroll_offset' =
                             IF nav_position + 1 >= scroll_offset + (height - 4)
                             THEN nav_position + 1 - (height - 4) + 1
                             ELSE scroll_offset
                  ELSE UNCHANGED <<nav_position, scroll_offset>>
               /\ UNCHANGED <<edit_position, edit_scroll_offset>>
    /\ UNCHANGED <<file, changes, root, current_node, edit_mode, pc, edits, nedits>>
    /\ Fixed

\* TAB that also puts both cursors back to 0
TogglePane_resets ==
    /\ pc = "run"
    /\ key' = "TAB"
    /\ new_value' = None
    /\ edit_mode' = ~edit_mode
    /\ nav_position' = 0
    /\ scroll_offset' = 0
    /\ edit_position' = 0
    /\ edit_scroll_offset' = 0
    /\ UNCHANGED <<file, changes, root, current_node, pc, edits, nedits>>
    /\ Fixed

\* TAB
TogglePane ==
    /\ pc = "run"
    /\ key' = "TAB"
    /\ new_value' = None
    /\ edit_mode' = ~edit_mode
    /\ UNCHANGED <<file, changes, root, current_node, nav_position, scroll_offset,
                   edit_position, edit_scroll_offset, pc, edits, nedits>>
    /\ Fixed

\* the ledger key edit_value records node under (line 288)
env_name(tree, node) ==
    IF Truthy(tree[node].env_var) THEN tree[node].env_var ELSE get_node_path(tree, node)

\* edit_value that starts the ledger afresh with the edited entry
edit_value_replaces_ledger(node, text) ==
    /\ new_value' = text
    /\ IF text # <<>>
       THEN /\ nedits < MaxEdits
            /\ root' = [root EXCEPT ![node].value = StrV(text)]
            /\ changes' = <<[k |-> env_name(root, node), v |-> text]>>
            /\ edits' = Append(edits, [node |-> node, value |-> text])
            /\ nedits' = nedits + 1
       ELSE UNCHANGED <<root, changes, edits, nedits>>
    /\ UNCHANGED file

\* edit_value without the test of line 285: empty input clears the value
edit_value_records_empty(node, text) ==
    /\ new_value' = text
    /\ root' = [root EXCEPT ![node].value = StrV(text)]
    /\ changes' = Put(changes, env_name(root, node), text)
    /\ IF text # <<>>
       THEN /\ nedits < MaxEdits
            /\ edits' = Append(edits, [node |-> node, value |-> text])
            /\ nedits' = nedits + 1
       ELSE UNCHANGED <<edits, nedits>>
    /\ UNCHANGED file

\* edit_value that records the edit under the node's own key
edit_value_by_key(node, text) ==
    /\ new_value' = text
    /\ IF text # <<>>
       THEN /\ nedits < MaxEdits
            /\ root' = [root EXCEPT ![node].value = StrV(text)]
            /\ changes' = Put(changes, root[node].key, text)
            /\ edits' = Append(edits, [node |-> node, value |-> text])
            /\ nedits' = nedits + 1
       ELSE UNCHANGED <<root, changes, edits, nedits>>
    /\ UNCHANGED file

\* edit_value that also writes export.env, as its comment on line 287 says
edit_value_saves(node, text) ==
    /\ new_value' = text
    /\ IF text # <<>>
       THEN /\ nedits < MaxEdits
            /\ root' = [root EXCEPT ![node].value = StrV(text)]
            /\ changes' = Put(changes, env_name(root, node), text)
            /\ edits' = Append(edits, [node |-> node, value |-> text])
            /\ nedits' = nedits + 1
            /\ file' = save_changes(file, Put(changes, env_name(root, node), text))
       ELSE UNCHANGED <<root, changes, edits, nedits, file>>

\* edit_value(node) when getstr returns text
edit_value(node, text) ==
    /\ new_value' = text
    /\ IF text # <<>>
       THEN /\ nedits < MaxEdits
            /\ root' = [root EXCEPT ![node].value = StrV(text)]
            /\ changes' = Put(changes, env_name(root, node), text)
            /\ edits' = Append(edits, [node |-> node, value |-> text])
            /\ nedits' = nedits + 1
       ELSE UNCHANGED <<root, changes, edits, nedits>>
    /\ UNCHANGED file

\* ENTER that descends without the resets of lines 329-332
Activate_keeps_cursors ==
    /\ pc = "run"
    /\ key' = "ENTER"
    /\ IF edit_mode
       THEN LET edit_items == get_editable_nodes(root, current_node) IN
            /\ IF edit_items # <<>> /\ 0 <= edit_position /\ edit_position < Len(edit_items)
               THEN \E text \in EditInputs : edit_value(edit_items[edit_position + 1], text)
               ELSE /\ new_value' = None
                    /\ UNCHANGED <<file, root, changes, edits, nedits>>
            /\ UNCHANGED <<current_node, nav_position, scroll_offset,
                           edit_position, edit_scroll_offset>>
       ELSE LET nav_items == get_navigable_nodes(root, current_node) IN
            /\ new_value' = None
            /\ IF nav_items # <<>> /\ 0 <= nav_position /\ nav_position < Len(nav_items)
               THEN /\ current_node' = nav_items[nav_position + 1]
                    /\ UNCHANGED <<nav_position, scroll_offset,
                                   edit_position, edit_scroll_offset>>
               ELSE UNCHANGED <<current_node, nav_position, scroll_offset,
                                edit_position, edit_scroll_offset>>
            /\ UNCHANGED <<file, root, changes, edits, nedits>>
    /\ UNCHANGED <<edit_mode, pc>>
    /\ Fixed

\* ENTER
Activate ==
    /\ pc = "run"
    /\ key' = "ENTER"
    /\ IF edit_mode
       THEN LET edit_items == get_editable_nodes(root, current_node) IN
            /\ IF edit_items # <<>> /\ 0 <= edit_position /\ edit_position < Len(edit_items)
               THEN \E text \in EditInputs : edit_value(edit_items[edit_position + 1], text)
               ELSE /\ new_value' = None
                    /\ UNCHANGED <<file, root, changes, edits, nedits>>
            /\ UNCHANGED <<current_node, nav_position, scroll_offset,
                           edit_position, edit_scroll_offset>>
       ELSE LET nav_items == get_navigable_nodes(root, current_node) IN
            /\ new_value' = None
            /\ IF nav_items # <<>> /\ 0 <= nav_position /\ nav_position < Len(nav_items)
               THEN /\ current_node' = nav_items[nav_position + 1]
                    /\ nav_position' = 0
                    /\ scroll_offset' = 0
                    /\ edit_position' = 0
                    /\ edit_scroll_offset' = 0
               ELSE UNCHANGED <<current_node, nav_position, scroll_offset,
                                edit_position, edit_scroll_offset>>
            /\ UNCHANGED <<file, root, changes, edits, nedits>>
    /\ UNCHANGED <<edit_mode, pc>>
    /\ Fixed

\* the value confirm_exit returns without asking (lines 138-139), and whether
\* it asks at all
confirm_exit_asks(d, original) == has_unsaved_changes(d, original)

\* ESC without the edit_mode branch of lines 334-335
Back_ignores_pane ==
    /\ pc = "run"
    /\ key' = "ESC"
    /\ new_value' = None
    /\ IF root[current_node].parent # NoNode
       THEN /\ current_node' = root[current_node].parent
            /\ nav_position' = 0
            /\ scroll_offset' = 0
            /\ edit_position' = 0
            /\ edit_scroll_offset' = 0
            /\ UNCHANGED <<edit_mode, pc>>
       ELSE /\ pc' = IF confirm_exit_asks(changes, original_values)
                     THEN "confirm_exit"
                     ELSE "run"
            /\ UNCHANGED <<current_node, nav_position, scroll_offset,
                           edit_position, edit_scroll_offset, edit_mode>>
    /\ UNCHANGED <<file, changes, root, edits, nedits>>
    /\ Fixed

\* ESC
Back ==
    /\ pc = "run"
    /\ key' = "ESC"
    /\ new_value' = None
    /\ IF edit_mode
       THEN /\ edit_mode' = FALSE
            /\ UNCHANGED <<current_node, nav_position, scroll_offset,
                           edit_position, edit_scroll_offset, pc>>
       ELSE IF root[current_node].parent # NoNode
            THEN /\ current_node' = root[current_node].parent
                 /\ nav_position' = 0
                 /\ scroll_offset' = 0
                 /\ edit_position' = 0
                 /\ edit_scroll_offset' = 0
                 /\ UNCHANGED <<edit_mode, pc>>
            ELSE /\ pc' = IF confirm_exit_asks(changes, original_values)
                          THEN "confirm_exit"
                          ELSE "run"
                 /\ UNCHANGED <<current_node, nav_position, scroll_offset,
                                edit_position, edit_scroll_offset, edit_mode>>
    /\ UNCHANGED <<file, changes, root, edits, nedits>>
    /\ Fixed

\* any other key
OtherKey ==
    /\ pc = "run"
    /\ key' \in OtherKeys
    /\ new_value' = None
    /\ UNCHANGED <<file, pc, edits, nedits>>
    /\ UNCHANGED editor
    /\ Fixed

\* ------------------------------------------------------------------------
\* confirm_exit, one action per answer
\* ------------------------------------------------------------------------

\* y: save_changes, then handle_navigation returns False and run ends
ConfirmSave ==
    /\ pc = "confirm_exit"
    /\ key' = "y"
    /\ new_value' = None
    /\ file' = save_changes(file, changes)
    /\ pc' = "done"
    /\ UNCHANGED <<edits, nedits>>
    /\ UNCHANGED editor
    /\ Fixed

\* n: handle_navigation returns False and run ends
ConfirmDiscard ==
    /\ pc = "confirm_exit"
    /\ key' = "n"
    /\ new_value' = None
    /\ pc' = "done"
    /\ UNCHANGED <<file, edits, nedits>>
    /\ UNCHANGED editor
    /\ Fixed

\* c or ESC: handle_navigation returns True and run goes on
ConfirmCancel ==
    /\ pc = "confirm_exit"
    /\ key' \in {"c", "ESC"}
    /\ new_value' = None
    /\ pc' = "run"
    /\ UNCHANGED <<file, edits, nedits>>
    /\ UNCHANGED editor
    /\ Fixed

\* any other key: the loop of line 148 reads the next key
ConfirmOther ==
    /\ pc = "confirm_exit"
    /\ key' \in OtherKeys
    /\ new_value' = None
    /\ UNCHANGED <<file, pc, edits, nedits>>
    /\ UNCHANGED editor
    /\ Fixed

\* ------------------------------------------------------------------------
\* main: the program is run again on the same document
\* ------------------------------------------------------------------------

Start ==
    /\ pc = "done"
    /\ session < MaxSessions
    /\ session' = session + 1
    /\ prev' = [key |-> key, edits |-> edits, root |-> root, changes |-> changes]
    /\ changes' = YAMLEditor(yaml_file, file).changes
    /\ original_values' = YAMLEditor(yaml_file, file).original_values
    /\ root' = YAMLEditor(yaml_file, file).root
    /\ current_node' = YAMLEditor(yaml_file, file).current_node
    /\ nav_position' = YAMLEditor(yaml_file, file).nav_position
    /\ scroll_offset' = YAMLEditor(yaml_file, file).scroll_offset
    /\ edit_position' = YAMLEditor(yaml_file, file).edit_position
    /\ edit_scroll_offset' = YAMLEditor(yaml_file, file).edit_scroll_offset
    /\ edit_mode' = YAMLEditor(yaml_file, file).edit_mode
    /\ pc' = "run"
    /\ key' = "start"
    /\ new_value' = None
    /\ edits' = <<>>
    /\ UNCHANGED <<yaml_file, file, height, nedits>>

Next ==
    \/ MoveUp
    \/ MoveDown
    \/ TogglePane
    \/ Activate
    \/ Back
    \/ OtherKey
    \/ ConfirmSave
    \/ ConfirmDiscard
    \/ ConfirmCancel
    \/ ConfirmOther
    \/ Start

Spec == Init /\ [][Next]_vars

\* ------------------------------------------------------------------------
\* Sessions without edits, on more documents and terminal heights
\* ------------------------------------------------------------------------

InitBrowse ==
    /\ yaml_file \in BrowseDocs
    /\ file \in Stores
    /\ height \in BrowseHeights
    /\ changes = YAMLEditor(yaml_file, file).changes
    /\ original_values = YAMLEditor(yaml_file, file).original_values
    /\ root = YAMLEditor(yaml_file, file).root
    /\ current_node = YAMLEditor(yaml_file, file).current_node
    /\ nav_position = YAMLEditor(yaml_file, file).nav_position
    /\ scroll_offset = YAMLEditor(yaml_file, file).scroll_offset
    /\ edit_position = YAMLEditor(yaml_file, file).edit_position
    /\ edit_scroll_offset = YAMLEditor(yaml_file, file).edit_scroll_offset
    /\ edit_mode = YAMLEditor(yaml_file, file).edit_mode
    /\ pc = "run"
    /\ key = "start"
    /\ new_value = None
    /\ edits = <<>>
    /\ prev = [key |-> "none", edits |-> <<>>, root |-> root, changes |-> <<>>]
    /\ session = 1
    /\ nedits = 0

\* ENTER, with nothing typed when an edit window opens
ActivateEmpty == Activate /\ new_value' \in {None, <<>>}

NextBrowse ==
    \/ MoveUp
    \/ MoveDown
    \/ TogglePane
    \/ ActivateEmpty
    \/ Back
    \/ OtherKey

SpecBrowse == InitBrowse /\ [][NextBrowse]_vars

\* ------------------------------------------------------------------------
\* Vocabulary of the properties
\* ------------------------------------------------------------------------

\* isDirty(): current differs from original as sets of key/value pairs
isDirty ==
    { <<changes[i].k, changes[i].v>> : i \in 1..Len(changes) }
        # { <<original_values[i].k, original_values[i].v>> : i \in 1..Len(original_values) }

\* Back is pressed in the Nav pane at the root
BackAtRoot == pc = "run" /\ key' = "ESC" /\ ~edit_mode /\ current_node = <<>>

\* tree position, pane and cursors
position == <<current_node, edit_mode, nav_position, scroll_offset,
              edit_position, edit_scroll_offset>>

\* f holds exactly one line "export NAME=VALUE" per entry of d
OneLinePerEntry(f, d) ==
    /\ f # Absent
    /\ Len(SplitLines(f)) = Len(d)
    /\ \A i \in 1..Len(d) :
          SplitLines(f)[i] = Export \o d[i].k \o <<"=">> \o d[i].v \o <<"\n">>

\* the leaves of the tree
Leaves == { n \in DOMAIN root : root[n].is_leaf }

\* the leaf has an envVar binding (a non-empty name)
Bound(n) == root[n].env_var # None /\ root[n].env_var # <<>>

\* the path identity: the keys from below the root to the node, joined by "_"
PathIdentity(n) ==
    Join([i \in 1..Len(n) |-> root[SubSeq(n, 1, i)].key], <<"_">>)

\* the identity of a leaf: its envVar when bound, its path identity otherwise
Identity(n) == IF Bound(n) THEN root[n].env_var ELSE PathIdentity(n)

\* the displayValue of a leaf
DisplayValue(n) == Str(root[n].value)

\* sibling keys are unique throughout the tree
SiblingKeysUnique ==
    \A n \in DOMAIN root : \A i, j \in 1..Len(root[n].children) :
        i # j => root[root[n].children[i]].key # root[root[n].children[j]].key

\* the displayValue the leaf had after the load of this session
LoadedDisplayValue(n) == Str(parse_yaml(yaml_file, original_values)[n].value)

\* the session so far is: a clean start, an edit of a leaf to a value other than
\* its loaded one, then an edit of the same leaf back to its loaded value
EditedAndReverted ==
    /\ Len(edits) = 2
    /\ edits[1].node = edits[2].node
    /\ edits[1].value # LoadedDisplayValue(edits[1].node)
    /\ edits[2].value = LoadedDisplayValue(edits[1].node)

\* the leaves edited in the previous session
PrevEdited == { prev.edits[i].node : i \in 1..Len(prev.edits) }

\* the value the leaf was last edited to in the previous session
PrevLastEdit(n) ==
    prev.edits[CHOOSE i \in 1..Len(prev.edits) :
                  /\ prev.edits[i].node = n
                  /\ \A j \in (i + 1)..Len(prev.edits) : prev.edits[j].node # n].value

\* the first render of a session that follows one ended by save-and-exit
FirstRenderAfterSave == session > 1 /\ key = "start" /\ prev.key = "y"

\* the items the Edit pane lists: the leaf children of the current position
EditPane == SelectSeq(root[current_node].children, LAMBDA c : root[c].is_leaf)

\* Activate is pressed in the Edit pane on a selected leaf and the input is not empty
EditStep ==
    /\ pc = "run" /\ key' = "ENTER" /\ edit_mode
    /\ edit_position < Len(EditPane)
    /\ new_value' # None /\ new_value' # <<>>

\* the leaf selected in the Edit pane
Selected == EditPane[edit_position + 1]

\* db_port
DbPort == <<"d","b","_","p","o","r","t">>

\* DB_HOST
DbHost == <<"D","B","_","H","O","S","T">>

\* the ledger that loadFrom reads back from what persist writes for d
RoundTrip(d) == load_env_file(save_changes(file, d)).changes

\* the items the Nav pane lists: the non-leaf children of the current position
NavPane == SelectSeq(root[current_node].children, LAMBDA c : ~root[c].is_leaf)

\* the number of items the active pane lists
ActiveCount == IF edit_mode THEN Len(EditPane) ELSE Len(NavPane)

\* both cursors and both scroll offsets
cursors == <<nav_position, scroll_offset, edit_position, edit_scroll_offset>>

\* the ledger, its original snapshot, the store and every displayValue
ledgerAndView == <<changes, original_values, file, root>>

\* the larger of two numbers
Max(a, b) == IF a >= b THEN a ELSE b

\* variable names written in placeholders
Names == {<<"A">>, <<"E">>, DbHost}

\* default texts written in placeholders
Defaults == {<<>>, <<"2">>, <<"b",":","c">>, <<"l","o","c","a","l","h","o","s","t">>}

\* the string does not start with "${"
NoPlaceholderStart(s) == ~(Len(s) >= 2 /\ s[1] = "$" /\ s[2] = "{")

\* the parsed value the node was built from
RawValue(n) == ValueAt(yaml_file, n)

\* ------------------------------------------------------------------------
\* Properties
\* ------------------------------------------------------------------------

\* C1: Back in the Nav pane at the root with a clean ledger ends the session
\* (the event loop stops) without a prompt.
C1_CleanBackEndsSession ==
    [][(BackAtRoot /\ ~isDirty) => pc' = "done"]_vars

\* C2: Back in the Nav pane at the root with a dirty ledger opens the exit
\* prompt; save-and-exit overwrites the store with exactly one export line per
\* entry of the current ledger and ends the session, discard-and-exit ends the
\* session, and cancel goes back to browsing with position, pane, cursors and
\* ledger unchanged.
C2_DirtyExitPrompt ==
    [][ /\ (BackAtRoot /\ isDirty) =>
              (pc' = "confirm_exit" /\ UNCHANGED <<file, changes, original_values, position>>)
        /\ (pc = "confirm_exit" /\ key' = "y") =>
              (pc' = "done" /\ OneLinePerEntry(file', changes) /\ UNCHANGED changes)
        /\ (pc = "confirm_exit" /\ key' = "n") => pc' = "done"
        /\ (pc = "confirm_exit" /\ key' \in {"c", "ESC"}) =>
              (pc' = "run" /\ UNCHANGED <<changes, original_values, root, position>>)
      ]_vars

\* C2 witness: a session with a ledger of several entries, over a store that
\* existed before, has ended with save-and-exit
C2_Witness ==
    /\ pc = "done" /\ key = "y"
    /\ Len(changes) >= 3
    /\ Len(original_values) >= 2

C4_ViewMatchesLedger ==
    \A n \in Leaves :
        Has(changes, Identity(n)) => DisplayValue(n) = Get(changes, Identity(n))

\* C5: when sibling keys are unique, two distinct leaves without an envVar
\* binding never have the same path identity.
C5_PathIdentityUnique ==
    SiblingKeysUnique =>
        \A n, m \in Leaves :
            (n # m /\ ~Bound(n) /\ ~Bound(m)) => PathIdentity(n) # PathIdentity(m)

\* C6: for every ledger reachable in a session, persist followed by loadFrom
\* on the same store gives back the same identity -> value map.
C6_PersistLoadRoundTrip ==
    { <<RoundTrip(changes)[i].k, RoundTrip(changes)[i].v>> : i \in 1..Len(RoundTrip(changes)) }
        = { <<changes[i].k, changes[i].v>> : i \in 1..Len(changes) }

\* C7: isDirty() is false after load, whatever the store holds, and stays
\* false until the first successful (non-empty) edit of the session.
C7_CleanUntilFirstEdit == edits = <<>> => ~isDirty

\* C7 witness: after a load of the store with malformed and repeated lines,
\* navigation below the root and an empty-input edit, no edit has succeeded
C7_Witness ==
    /\ edits = <<>>
    /\ file = StoreMixed
    /\ current_node # <<>>
    /\ key = "ENTER" /\ new_value = <<>>

\* C8: from a clean session, editing a leaf to another value and then back to
\* the value it had after load makes isDirty() false again, for every leaf,
\* whether or not its identity had an entry in the loaded store.
C8_RevertIsClean == EditedAndReverted => ~isDirty

\* C8 as amended: the same, for every leaf whose identity had an entry in the
\* loaded store.
C8_RevertOfLoadedEntryIsClean ==
    (EditedAndReverted /\ Has(original_values, Identity(edits[1].node))) => ~isDirty

\* C8 witness: a leaf with an entry in the loaded store was edited and reverted
C8_Witness ==
    /\ EditedAndReverted
    /\ Has(original_values, Identity(edits[1].node))
    /\ key = "ENTER"

\* C9: after a session that ended with save-and-exit, at the first render of
\* the next session on the same document every leaf edited in that session
\* displays the value it was edited to, and every leaf that was not edited and
\* had no ledger entry displays what it displayed before.
C9_SavedEditsShownNextSession ==
    FirstRenderAfterSave =>
        /\ \A n \in PrevEdited : DisplayValue(n) = PrevLastEdit(n)
        /\ \A n \in Leaves \ PrevEdited :
              ~Has(prev.changes, Identity(n)) => DisplayValue(n) = Str(prev.root[n].value)

\* C10: Activate in the Edit pane on a selected leaf L with non-empty input v
\* sets current[k] = v for k the envVar of L when it has one and its path
\* identity otherwise, sets the displayValue of L to v and changes no other
\* ledger entry; port under db is recorded as db_port, the leaf bound to
\* DB_HOST as DB_HOST.
C10_EditRecordsIdentity ==
    [][EditStep =>
          /\ Has(changes', Identity(Selected))
          /\ Get(changes', Identity(Selected)) = new_value'
          /\ Str(root'[Selected].value) = new_value'
          /\ Keys(changes') = Keys(changes) \cup {Identity(Selected)}
          /\ \A k \in Keys(changes) \ {Identity(Selected)} : Get(changes', k) = Get(changes, k)
          /\ (yaml_file = DocDb /\ Selected = <<1, 2>>) => Identity(Selected) = DbPort
          /\ (yaml_file = DocDb /\ Selected = <<1, 1>>) => Identity(Selected) = DbHost
      ]_vars

\* C10 witness: on {db: {host: ${DB_HOST:localhost}, port: 5432}} with a store
\* of other entries, both leaves were edited and the ledger holds DB_HOST and
\* db_port
C10_Witness ==
    /\ yaml_file = DocDb
    /\ key = "ENTER" /\ new_value # None /\ new_value # <<>>
    /\ Len(edits) = 2
    /\ Keys(original_values) = {<<"A">>, <<"B">>}
    /\ Keys(changes) = {<<"A">>, <<"B">>, DbPort, DbHost}

\* C11: an edit sub-interaction that receives empty input is a no-op: ledger,
\* original snapshot, every displayValue, tree position, pane and cursors are
\* unchanged and the session stays in Browsing.
C11_EmptyInputIsNoOp ==
    [][(pc = "run" /\ key' = "ENTER" /\ new_value' = <<>>) =>
          (pc' = "run" /\ UNCHANGED <<ledgerAndView, position>>)]_vars

\* C11 witness: after a successful edit of a leaf, an edit window on a leaf of
\* a loaded store was left empty
C11_Witness ==
    /\ key = "ENTER" /\ new_value = <<>>
    /\ edits # <<>>
    /\ original_values # <<>>
    /\ edit_position = 1

\* C12: in every reachable state each pane's cursor c satisfies
\* 0 <= c <= max(0, count - 1) for the number of items the pane lists at the
\* current position, and MoveUp at 0 and MoveDown at count - 1 leave the cursor
\* where it is (no wraparound).
C12_CursorInRange ==
    /\ [](/\ 0 <= nav_position /\ nav_position <= Max(0, Len(NavPane) - 1)
          /\ 0 <= edit_position /\ edit_position <= Max(0, Len(EditPane) - 1))
    /\ [][/\ (pc = "run" /\ key' = "KEY_UP" /\ edit_mode /\ edit_position = 0)
                => edit_position' = 0
          /\ (pc = "run" /\ key' = "KEY_UP" /\ ~edit_mode /\ nav_position = 0)
                => nav_position' = 0
          /\ (pc = "run" /\ key' = "KEY_DOWN" /\ edit_mode
                /\ edit_position = Len(EditPane) - 1)
                => edit_position' = edit_position
          /\ (pc = "run" /\ key' = "KEY_DOWN" /\ ~edit_mode
                /\ nav_position = Len(NavPane) - 1)
                => nav_position' = nav_position
         ]_vars

\* C12 witness: below the root, the Edit pane's cursor is on the last of two
\* items, the last key was MoveDown and an edit has been made
C12_Witness ==
    /\ key = "KEY_DOWN"
    /\ current_node # <<>>
    /\ edit_mode /\ Len(EditPane) = 2 /\ edit_position = 1
    /\ edits # <<>>

\* C13: when the active pane lists no item at the current position, Activate,
\* MoveDown and MoveUp are no-ops: position, pane, cursors, scroll offsets,
\* ledger and displayValues are unchanged and the session goes on.
C13_EmptyPaneNoOps ==
    [][(pc = "run" /\ key' \in {"ENTER", "KEY_UP", "KEY_DOWN"} /\ ActiveCount = 0) =>
          (pc' = "run" /\ UNCHANGED <<position, ledgerAndView>>)]_vars

\* C13 witness: Activate was pressed in the Edit pane of the empty mapping e of
\* {a_b: 1, a: {b: 2}, e: {}}, where both panes are empty
C13_Witness ==
    /\ yaml_file = DocPaths /\ current_node = <<3>>
    /\ Len(NavPane) = 0 /\ Len(EditPane) = 0
    /\ edit_mode /\ key = "ENTER"

\* C14: Back while the active pane is Edit only switches the active pane to
\* Nav: no ascent, no termination, no exit prompt, and cursors, scroll offsets
\* and ledger are unchanged.
C14_BackInEditPane ==
    [][(pc = "run" /\ key' = "ESC" /\ edit_mode) =>
          /\ ~edit_mode'
          /\ pc' = "run"
          /\ UNCHANGED <<current_node, cursors, ledgerAndView>>]_vars

\* C14 witness: below the root, with a dirty ledger and the Edit cursor on the
\* second item, the last key was Back and the position is the same (a Back in
\* the Nav pane would have reset the cursor)
C14_Witness ==
    /\ pc = "run" /\ key = "ESC"
    /\ ~edit_mode
    /\ current_node # <<>>
    /\ edit_position = 1
    /\ isDirty

\* C15: for every node of a tree built from any parsed document value (empty
\* mappings, sequences and null scalars included), the node is a leaf iff it
\* has no children, and envVar is set only on leaves.
C15_LeafIffNoChildren ==
    \A n \in DOMAIN root :
        /\ root[n].is_leaf <=> root[n].children = <<>>
        /\ root[n].env_var # None => root[n].is_leaf

\* C15 as amended: the node is a leaf iff its value is not a mapping; a leaf has
\* no children, a non-leaf has one child per key of its mapping and so has no
\* children exactly when the mapping is empty; envVar is set only on leaves.
C15_LeafIffNotMapping ==
    \A n \in DOMAIN root :
        /\ root[n].is_leaf <=> RawValue(n).t # "dict"
        /\ root[n].is_leaf => root[n].children = <<>>
        /\ ~root[n].is_leaf => Len(root[n].children) = Len(RawValue(n).items)
        /\ root[n].env_var # None => root[n].is_leaf

\* C15 witness: the session is inside the empty mapping m of the document with
\* a null, a sequence and an empty mapping: a non-leaf without children
C15_Witness ==
    /\ yaml_file = DocKinds
    /\ current_node = <<3>>
    /\ ~root[<<3>>].is_leaf /\ root[<<3>>].children = <<>>
    /\ root[<<1>>].is_leaf /\ root[<<2>>].is_leaf

\* C16: a scalar string ${NAME:default} gives envVar = NAME and displayValue =
\* default (the text after the first ":" up to the closing brace), ${NAME}
\* gives envVar = NAME and displayValue = "", and a string that does not start
\* with "${" gives no envVar and keeps its value.  The value is the one of
\* construction, seen while no ledger entry has replaced it.
C16_PlaceholderCoercion ==
    \A n \in DOMAIN root :
        /\ \A name \in Names : \A d \in Defaults :
              RawValue(n) = StrV(<<"$", "{">> \o name \o <<":">> \o d \o <<"}">>) =>
                  /\ root[n].env_var = name
                  /\ changes = <<>> => root[n].value = StrV(d)
        /\ \A name \in Names :
              RawValue(n) = StrV(<<"$", "{">> \o name \o <<"}">>) =>
                  /\ root[n].env_var = name
                  /\ changes = <<>> => root[n].value = StrV(<<>>)
        /\ (RawValue(n).t = "str" /\ NoPlaceholderStart(RawValue(n).s)) =>
                  /\ root[n].env_var = None
                  /\ changes = <<>> => root[n].value = RawValue(n)

\* C16 witness: with an empty ledger the session shows the section p of the
\* document whose leaves are ${A:b:c}, ${A:} and ${DB_HOST}
C16_Witness ==
    /\ yaml_file = DocHolders
    /\ changes = <<>>
    /\ current_node = <<1>> /\ edit_mode
    /\ root[<<1, 1>>].env_var = <<"A">> /\ root[<<1, 1>>].value = StrV(<<"b",":","c">>)
    /\ root[<<1, 2>>].env_var = <<"A">> /\ root[<<1, 2>>].value = StrV(<<>>)
    /\ root[<<1, 3>>].env_var = DbHost /\ root[<<1, 3>>].value = StrV(<<>>)

\* C17: every transition that changes the tree position (Activate on a
\* selected Nav item, which moves to exactly that child; Back in the Nav pane
\* below the root, which moves to exactly the parent) leaves both cursors and
\* both scroll offsets at 0 and the pane at Nav, and changes neither the ledger
\* nor any displayValue.
C17_PositionChangeResets ==
    [][/\ (pc = "run" /\ key' = "ENTER" /\ ~edit_mode /\ nav_position < Len(NavPane))
            => current_node' = NavPane[nav_position + 1]
       /\ (pc = "run" /\ key' = "ESC" /\ ~edit_mode /\ current_node # <<>>)
            => current_node' = SubSeq(current_node, 1, Len(current_node) - 1)
       /\ current_node' # current_node
            => /\ cursors' = <<0, 0, 0, 0>>
               /\ ~edit_mode'
               /\ pc' = "run"
               /\ UNCHANGED ledgerAndView
      ]_vars

\* C17 witness: after an edit at the root of {a_b: 1, a: {b: 2}, e: {}}, the
\* second Nav item was selected and activated
C17_Witness ==
    /\ yaml_file = DocPaths
    /\ edits # <<>>
    /\ key = "ENTER" /\ ~edit_mode
    /\ current_node = <<3>>
    /\ cursors = <<0, 0, 0, 0>>

\* C18: for a viewport of height H with window size W = H - 4, in every state
\* reachable by MoveUp, MoveDown, TogglePane, Activate and Back, each pane's
\* scroll offset s and cursor c satisfy s <= c < s + W.
C18_CursorInWindow ==
    /\ scroll_offset <= nav_position
    /\ nav_position < scroll_offset + (height - 4)
    /\ edit_scroll_offset <= edit_position
    /\ edit_position < edit_scroll_offset + (height - 4)

\* C18 as amended: the same for a viewport of height H >= 5, whose window has
\* at least one row.
C18_CursorInWindowOfOneRow ==
    height >= 5 =>
        /\ scroll_offset <= nav_position
        /\ nav_position < scroll_offset + (height - 4)
        /\ edit_scroll_offset <= edit_position
        /\ edit_position < edit_scroll_offset + (height - 4)

\* C18 witness: in a window of two rows the Edit pane of five items has been
\* scrolled down to its last item
C18_Witness ==
    /\ height = 6
    /\ key = "KEY_DOWN" /\ edit_mode
    /\ Len(EditPane) = 5
    /\ edit_position = 4 /\ edit_scroll_offset = 3

\* C19: across the transitions of a session after load the original snapshot
\* never changes and the key set of the current ledger only grows; every key
\* of original is always a key of current.
C19_LedgerKeysGrow ==
    /\ [](Keys(original_values) \subseteq Keys(changes))
    /\ [][key' # "start" =>
             /\ original_values' = original_values
             /\ Keys(changes) \subseteq Keys(changes')]_vars

\* C19 witness: two edits have been made over a loaded store and the ledger
\* has more keys than the original snapshot
C19_Witness ==
    /\ key = "ENTER"
    /\ Len(edits) = 2
    /\ original_values # <<>>
    /\ Keys(changes) # Keys(original_values)

\* C20: TogglePane flips the active pane between Nav and Edit and changes
\* nothing else: cursors, scroll offsets, tree position, ledger and
\* displayValues are kept, so two TogglePane events in a row restore the state.
C20_ToggleOnlyFlipsPane ==
    [][(pc = "run" /\ key' = "TAB") =>
          /\ edit_mode' = ~edit_mode
          /\ pc' = "run"
          /\ UNCHANGED <<current_node, cursors, ledgerAndView>>]_vars

\* C20 witness: TogglePane was pressed with the Nav cursor on the second item
\* and the pane is now Edit
C20_Witness ==
    /\ key = "TAB" /\ edit_mode
    /\ nav_position = 1 /\ scroll_offset = 1
    /\ edits # <<>>

====
